---- MODULE Spec2Model ----
(***************************************************************************)
(* lal-webhook: the quota gatekeeper of cmd/webhook/main.go.               *)
(*                                                                         *)
(* The shared store is a Redis server holding three key families:          *)
(*   remain:<token>:<YYYY-MM>   integer counter, no expiry                 *)
(*   sid_to_token:<session>     string, 2-hour expiry                      *)
(*   active_sids:<stream>       set of session ids                         *)
(* Every store call is one atomic step; the webhook handlers run one       *)
(* goroutine per request, the Enforcer is one goroutine started by main,   *)
(* and every denied admission spawns one delayed-kick goroutine.           *)
(***************************************************************************)
EXTENDS Integers, Sequences, FiniteSets, TLC

\* ------------------------------------------------------------------------
\* Program constants
\* ------------------------------------------------------------------------

DefaultQuota == 120

TickCost == 5

\* The month the /quotas handler has in its key pattern.
QuotasMonth == "2026-02"

\* ------------------------------------------------------------------------
\* Bounds of the model
\* ------------------------------------------------------------------------

\* Calendar months the clock runs through.
MaxMonth == 2

\* Enforcer cycles per run.
MaxCycles == 2

\* Webhook/HTTP requests received per run.
MaxRequests == 2

\* Requests handled at the same time.
MaxSlots == 2

\* Ticks of the 120-second scenario (24 to exhaust the quota, one more).
ScenarioTicks == 25

MonthNames == <<"2026-01", "2026-02", "2026-03", "2026-04">>

Tokens == {"abc", "xyz"}

Sids == {"s1", "s2"}

Streams == {"stream", "live"}

Slots == 1..MaxSlots

\* ------------------------------------------------------------------------
\* Store primitives (go-redis calls, with the error dropped as the code does)
\* ------------------------------------------------------------------------

Put(db, key, val) == [k \in DOMAIN db \cup {key} |-> IF k = key THEN val ELSE db[k]]

\* DEL key
Del(db, key) == [k \in DOMAIN db \ {key} |-> db[k]]

\* SET key val NX
SetNX(db, key, val) == IF key \in DOMAIN db THEN db ELSE Put(db, key, val)

\* GET key, .Int(): a missing key is an error and the zero value
GetInt(db, key) == IF key \in DOMAIN db THEN db[key] ELSE 0

\* GET key, .Result(): a missing key is an error and the empty string
GetStr(db, key) == IF key \in DOMAIN db THEN db[key] ELSE ""

\* DECRBY key n: a missing key counts from 0; the store afterwards
DecrBy(db, key, n) == Put(db, key, GetInt(db, key) - n)

\* SMEMBERS key
SMembers(db, key) == IF key \in DOMAIN db THEN db[key] ELSE {}

\* SADD key member
SAdd(db, key, member) == Put(db, key, SMembers(db, key) \cup {member})

\* An emptied set kept under its key.
SRem_KeepsEmpty(db, key, member) == Put(db, key, SMembers(db, key) \ {member})

\* SREM key member: the store drops a set that becomes empty
SRem(db, key, member) ==
    IF SMembers(db, key) \ {member} = {}
    THEN Del(db, key)
    ELSE Put(db, key, SMembers(db, key) \ {member})

\* KEYS pattern, for the active_sids:* family
Keys(db) == DOMAIN db

\* ------------------------------------------------------------------------
\* Pure helpers of the handlers
\* ------------------------------------------------------------------------

\* time.Now().Format("2006-01")
Format(now) == MonthNames[now]

\* fmt.Sprintf("remain:%s:%s", token, month)
TokenKey(token, month) == <<token, month>>

\* KEYS "remain:*:<month>"
KeysOfMonth(db, month) == {k \in DOMAIN db : k[2] = month}

ZeroMsg == [SessionID |-> "", ID |-> "", StreamName |-> "", Url |-> <<>>]

\* c.ShouldBindJSON(&msg)
ShouldBindJSON(body) ==
    IF body.json
    THEN [err |-> FALSE,
          msg |-> [SessionID |-> body.session_id, ID |-> body.id,
                   StreamName |-> body.stream_name, Url |-> body.url]]
    ELSE [err |-> TRUE, msg |-> ZeroMsg]

\* LalNotify.GetID
GetID(l) == IF l.SessionID # "" THEN l.SessionID ELSE l.ID

\* url.Parse(msg.Url).Query().Get(name): the first value of the parameter
QueryGet(url, name) ==
    LET hits == {i \in 1..Len(url) : url[i][1] = name}
    IN  IF hits = {} THEN ""
        ELSE url[CHOOSE i \in hits : \A j \in hits : i <= j][2]

\* The no-token branch never taken.
TokenMissing_Never(token) == FALSE

\* if token == "" of on_sub_start
TokenMissing(token) == token = ""

\* A balance of exactly 0 let through.
NoQuota_Negative(bal) == bal < 0

\* if remain <= 0 of on_sub_start
NoQuota(bal) == bal <= 0

\* A balance of exactly 0 not taken as exhausted.
Exhausted_Negative(newBalance) == newBalance < 0

\* if newBalance <= 0 of startEnforcer
Exhausted(newBalance) == newBalance <= 0

\* "active" / "exhausted" of the /quotas handler
StatusOf(val) == IF val <= 0 THEN "exhausted" ELSE "active"

\* ------------------------------------------------------------------------
\* Inputs
\* ------------------------------------------------------------------------

NoToken == <<>>

EmptyToken == <<<<"token", "">>>>

WithToken(t) == <<<<"token", t>>>>

Malformed == [json |-> FALSE, session_id |-> "", id |-> "", stream_name |-> "", url |-> <<>>]

\* s1 arrives in the session_id field, s2 in the id field
Body(sid, st, u) ==
    [json |-> TRUE, session_id |-> IF sid = "s1" THEN sid ELSE "",
     id |-> IF sid = "s1" THEN "" ELSE sid, stream_name |-> st, url |-> u]

\* s1 watches either stream with token abc, s2 watches "stream" with either
\* token, and s1 also comes without a token.
StartBodies ==
    {Body("s1", st, WithToken("abc")) : st \in Streams}
    \cup {Body("s2", "stream", WithToken(t)) : t \in Tokens}
    \cup {Body("s1", "stream", u) : u \in {NoToken, EmptyToken}}
    \cup {Malformed}

StopBodies ==
    {Body("s1", st, NoToken) : st \in Streams}
    \cup {Body("s2", "stream", NoToken), Malformed}

\* ------------------------------------------------------------------------
\* State
\* ------------------------------------------------------------------------

VARIABLES
    clock,        \* the wall clock, as an index into MonthNames
    remain,       \* remain:<token>:<month> -> integer
    sidToToken,   \* sid_to_token:<session> -> token
    activeSids,   \* active_sids:<stream> -> set of session ids
    tickerC,      \* ticks buffered in ticker.C (capacity 1)
    enf,          \* the Enforcer goroutine: its position and locals; present
                  \* and raced are history: the session was registered when
                  \* its balance was decremented, and was added again between
                  \* the SRem and the Del; so is billed: the session ids the
                  \* cycle has made a decrement for, and doomed: the members
                  \* that had a mapping to a token with a balance <= 0 when
                  \* the cycle began, less those a stop has removed since
    req,          \* the request goroutines: position, locals, response; raced,
                  \* undone and rewritten are history: what other goroutines
                  \* did to this one's session between two of its store calls
    bgKicks,      \* delayed-kick goroutines not yet run, per (stream, session)
    \* history
    checked,      \* ledger keys an admission check has initialised or found
    cycles,       \* Enforcer cycles begun
    inFlight,     \* Enforcer cycles begun and not finished
    enfKicks,     \* kick calls of the current cycle, per (stream, session)
    owed,         \* denial responses less delayed kick calls, per (stream, session)
    nreq          \* requests received

store == <<remain, sidToToken, activeSids>>

history == <<checked, cycles, inFlight, enfKicks, owed, nreq>>

vars == <<clock, remain, sidToToken, activeSids, tickerC, enf, req, bgKicks,
          checked, cycles, inFlight, enfKicks, owed, nreq>>

IdleReq ==
    [pc |-> "idle", kind |-> "", msg |-> ZeroMsg, bindErr |-> FALSE, token |-> "",
     sID |-> "", month |-> "", remain |-> 0, raced |-> FALSE, undone |-> FALSE,
     rewritten |-> FALSE, resp |-> {}, keys |-> {}, results |-> <<>>]

IdleEnf ==
    [pc |-> "idle", month |-> "", keys |-> {}, key |-> "", sids |-> {},
     sID |-> "", token |-> "", newBalance |-> 0, present |-> FALSE,
     raced |-> FALSE, billed |-> {}, doomed |-> {}]

Pairs == Streams \X Sids

\* A bag over (stream, session) pairs
Zero == [p \in Pairs |-> 0]

\* Balances an earlier run can have left behind: remain:* keys never expire.
LeftOver == {TickCost}

\* The store outlives the process: at start-up the ledger holds what earlier
\* admissions and ticks of the month left there, and the registry is empty.
Init ==
    /\ clock = 1
    /\ \E had \in SUBSET Tokens :
         /\ remain \in [{TokenKey(t, Format(1)) : t \in had} -> LeftOver]
         /\ checked = {TokenKey(t, Format(1)) : t \in had}
    /\ sidToToken = <<>>
    /\ activeSids = <<>>
    /\ tickerC = 0
    /\ enf = IdleEnf
    /\ req = [r \in Slots |-> IdleReq]
    /\ bgKicks = Zero
    /\ cycles = 0
    /\ inFlight = 0
    /\ enfKicks = Zero
    /\ owed = Zero
    /\ nreq = 0

\* ------------------------------------------------------------------------
\* POST /on_sub_start
\* ------------------------------------------------------------------------

\* The lowest free request slot takes the next request.
Free(r) ==
    /\ req[r].pc = "idle"
    /\ \A q \in Slots : q < r => req[q].pc # "idle"
    /\ nreq < MaxRequests

\* The denial sent with no delayed kick started.
Spawn_None(bag, stream, sid) == bag

\* go func() { time.Sleep(...); kickLalSession(stream, sid) }()
Spawn(bag, stream, sid) == [bag EXCEPT ![<<stream, sid>>] = @ + 1]

\* Bind, token extraction, the no-token branch, and SetNX of the ledger entry.
OnSubStart(r, body) ==
    /\ Free(r)
    /\ nreq' = nreq + 1
    /\ LET b     == ShouldBindJSON(body)
           token == QueryGet(b.msg.Url, "token")
           sID   == GetID(b.msg)
           month == Format(clock)
           mine  == [IdleReq EXCEPT !.kind = "start", !.msg = b.msg,
                                    !.bindErr = b.err]
       IN  IF b.err
           THEN /\ req' = [req EXCEPT ![r] = [mine EXCEPT !.pc = "done"]]
                /\ UNCHANGED <<remain, checked, bgKicks, owed>>
           ELSE IF TokenMissing(token)
           THEN /\ req' = [req EXCEPT ![r] =
                            [mine EXCEPT !.pc = "done", !.sID = sID, !.resp = {1001}]]
                /\ bgKicks' = Spawn(bgKicks, b.msg.StreamName, sID)
                /\ owed' = [owed EXCEPT ![<<b.msg.StreamName, sID>>] = @ + 1]
                /\ UNCHANGED <<remain, checked>>
           ELSE /\ remain' = SetNX(remain, TokenKey(token, month), DefaultQuota)
                /\ checked' = checked \cup {TokenKey(token, month)}
                /\ req' = [req EXCEPT ![r] =
                            [mine EXCEPT !.pc = "get", !.token = token,
                                         !.sID = sID, !.month = month]]
                /\ UNCHANGED <<bgKicks, owed>>
    /\ UNCHANGED <<clock, sidToToken, activeSids, tickerC, enf, cycles, inFlight,
                   enfKicks>>

\* The quota check: Get, and the no-quota branch.
OnSubStart_Get(r) ==
    /\ req[r].pc = "get"
    /\ LET me     == req[r]
           bal == GetInt(remain, TokenKey(me.token, me.month))
       IN  IF NoQuota(bal)
           THEN /\ bgKicks' = Spawn(bgKicks, me.msg.StreamName, me.sID)
                /\ owed' = [owed EXCEPT ![<<me.msg.StreamName, me.sID>>] = @ + 1]
                /\ req' = [req EXCEPT ![r] =
                            [me EXCEPT !.pc = "done", !.remain = bal,
                                       !.resp = {1002}]]
           ELSE /\ req' = [req EXCEPT ![r] = [me EXCEPT !.pc = "set", !.remain = bal]]
                /\ UNCHANGED <<bgKicks, owed>>
    /\ UNCHANGED <<clock, store, tickerC, enf, checked, cycles, inFlight, enfKicks,
                   nreq>>

\* An admission that has written the mapping of sid and not yet made its
\* SAdd notes that another admission wrote a different token over it.
NoteSet(p, sid, token) ==
    IF p.pc = "sadd" /\ p.sID = sid /\ p.token # token
    THEN [p EXCEPT !.rewritten = TRUE]
    ELSE p

\* An admission that has written the mapping of sid and not yet made its
\* SAdd notes that the mapping was deleted (a stop, an eviction, its expiry).
NoteDel(p, sid) ==
    IF p.pc = "sadd" /\ p.sID = sid
    THEN [p EXCEPT !.undone = TRUE]
    ELSE p

\* The mapping written under the stream's name.
OnSubStart_Set_WrongKey(r) ==
    /\ req[r].pc = "set"
    /\ sidToToken' = Put(sidToToken, req[r].msg.StreamName, req[r].token)
    /\ req' = [q \in Slots |->
                 IF q = r THEN [req[r] EXCEPT !.pc = "sadd"]
                 ELSE NoteSet(req[q], req[r].sID, req[r].token)]
    /\ UNCHANGED <<clock, remain, activeSids, tickerC, enf, bgKicks, history>>

\* rdb.Set(ctx, "sid_to_token:"+sID, token, 2*time.Hour)
OnSubStart_Set(r) ==
    /\ req[r].pc = "set"
    /\ sidToToken' = Put(sidToToken, req[r].sID, req[r].token)
    /\ req' = [q \in Slots |->
                 IF q = r THEN [req[r] EXCEPT !.pc = "sadd"]
                 ELSE NoteSet(req[q], req[r].sID, req[r].token)]
    /\ UNCHANGED <<clock, remain, activeSids, tickerC, enf, bgKicks, history>>

\* A removal of (stream, sid) that has done its SRem and not yet its Del
\* notes an SAdd of the same pair made in between.
NoteAdd(p, stream, sid, pcDel, itsStream, itsSid) ==
    IF p.pc = pcDel /\ itsStream = stream /\ itsSid = sid
    THEN [p EXCEPT !.raced = TRUE]
    ELSE p

\* rdb.SAdd(ctx, "active_sids:"+msg.StreamName, sID) and the allow response
OnSubStart_SAdd(r) ==
    /\ req[r].pc = "sadd"
    /\ LET me == req[r]
           st == me.msg.StreamName
       IN  /\ activeSids' = SAdd(activeSids, st, me.sID)
           /\ req' = [q \in Slots |->
                        IF q = r
                        THEN [me EXCEPT !.pc = "done", !.resp = {0},
                                        !.undone = FALSE, !.rewritten = FALSE]
                        ELSE NoteAdd(req[q], st, me.sID, "stop_del",
                                     req[q].msg.StreamName, req[q].sID)]
           /\ enf' = NoteAdd(enf, st, me.sID, "del", enf.key, enf.sID)
    /\ UNCHANGED <<clock, remain, sidToToken, tickerC, bgKicks, history>>

\* ------------------------------------------------------------------------
\* POST /on_sub_stop
\* ------------------------------------------------------------------------

\* Bind (its error ignored) and SRem from the stream's active set.
OnSubStop(r, body) ==
    /\ Free(r)
    /\ nreq' = nreq + 1
    /\ LET b   == ShouldBindJSON(body)
           sID == GetID(b.msg)
       IN  /\ activeSids' = SRem(activeSids, b.msg.StreamName, sID)
           /\ req' = [req EXCEPT ![r] =
                       [IdleReq EXCEPT !.pc = "stop_del", !.kind = "stop",
                                       !.msg = b.msg, !.bindErr = b.err, !.sID = sID]]
           /\ enf' = [enf EXCEPT !.doomed = @ \ {<<b.msg.StreamName, sID>>}]
    /\ UNCHANGED <<clock, remain, sidToToken, tickerC, bgKicks, checked, cycles,
                   inFlight, enfKicks, owed>>

\* The Del given the stream's name for the session's.
OnSubStop_Del_WrongKey(r) ==
    /\ req[r].pc = "stop_del"
    /\ sidToToken' = Del(sidToToken, req[r].msg.StreamName)
    /\ req' = [q \in Slots |->
                 IF q = r THEN [req[r] EXCEPT !.pc = "done", !.resp = {0}]
                 ELSE NoteDel(req[q], req[r].sID)]
    /\ UNCHANGED <<clock, remain, activeSids, tickerC, enf, bgKicks, history>>

\* rdb.Del(ctx, "sid_to_token:"+sID) and the response
OnSubStop_Del(r) ==
    /\ req[r].pc = "stop_del"
    /\ sidToToken' = Del(sidToToken, req[r].sID)
    /\ req' = [q \in Slots |->
                 IF q = r THEN [req[r] EXCEPT !.pc = "done", !.resp = {0}]
                 ELSE NoteDel(req[q], req[r].sID)]
    /\ UNCHANGED <<clock, remain, activeSids, tickerC, enf, bgKicks, history>>

\* ------------------------------------------------------------------------
\* GET /quotas
\* ------------------------------------------------------------------------

\* rdb.Keys(ctx, "remain:*:2026-02"); an empty listing is answered at once.
Quotas(r) ==
    /\ Free(r)
    /\ nreq' = nreq + 1
    /\ LET keys == KeysOfMonth(remain, QuotasMonth)
       IN  req' = [req EXCEPT ![r] =
                    [IdleReq EXCEPT !.kind = "quotas", !.keys = keys,
                                    !.pc = IF keys = {} THEN "done" ELSE "quotas_get",
                                    !.resp = IF keys = {} THEN {200} ELSE {}]]
    /\ UNCHANGED <<clock, store, tickerC, enf, bgKicks, checked, cycles, inFlight,
                   enfKicks, owed>>

\* One pass of the loop over the keys; the last pass sends the listing.
Quotas_Get(r) ==
    /\ req[r].pc = "quotas_get"
    /\ \E key \in req[r].keys :
         LET val  == GetInt(remain, key)
             info == [Stream |-> key, Remaining |-> val, Status |-> StatusOf(val)]
             left == req[r].keys \ {key}
         IN  req' = [req EXCEPT ![r].keys = left,
                                ![r].results = Put(@, key, info),
                                ![r].pc = IF left = {} THEN "done" ELSE "quotas_get",
                                ![r].resp = IF left = {} THEN {200} ELSE {}]
    /\ UNCHANGED <<clock, store, tickerC, enf, bgKicks, history>>

\* The handler returns and its goroutine ends.
Return(r) ==
    /\ req[r].pc = "done"
    /\ req' = [req EXCEPT ![r] = IdleReq]
    /\ UNCHANGED <<clock, store, tickerC, enf, bgKicks, history>>

\* ------------------------------------------------------------------------
\* The delayed kick of a denied admission, and kickLalSession
\* ------------------------------------------------------------------------

\* kickLalSession(stream, sid) of a delayed-kick goroutine: one POST to
\* /api/ctrl/kick_session, its outcome logged and dropped.
DelayedKick(stream, sid) ==
    /\ bgKicks[<<stream, sid>>] > 0
    /\ bgKicks' = [bgKicks EXCEPT ![<<stream, sid>>] = @ - 1]
    /\ owed' = [owed EXCEPT ![<<stream, sid>>] = @ - 1]
    /\ UNCHANGED <<clock, store, tickerC, enf, req, checked, cycles, inFlight,
                   enfKicks, nreq>>

\* ------------------------------------------------------------------------
\* startEnforcer
\* ------------------------------------------------------------------------

\* The ticker fires; ticker.C holds one tick and drops the rest.
Tick(cap) ==
    /\ cycles + tickerC < cap
    /\ tickerC' = 1
    /\ UNCHANGED <<clock, store, enf, req, bgKicks, history>>

\* Where the loops go after a session id: the next id, or the next key.
Continue(e, left) ==
    [e EXCEPT !.pc = IF left = {} THEN "keys" ELSE "sids", !.sids = left,
              !.sID = "", !.token = "", !.newBalance = 0, !.present = FALSE,
              !.raced = FALSE]

\* The registered sessions whose token has an entry for the month with
\* nothing left on it.
Doomed(month) ==
    {p \in Pairs :
        /\ p[2] \in SMembers(activeSids, p[1])
        /\ p[2] \in DOMAIN sidToToken
        /\ TokenKey(sidToToken[p[2]], month) \in DOMAIN remain
        /\ remain[TokenKey(sidToToken[p[2]], month)] <= 0}

\* Each tick given a cycle of its own, whether or not the last one is over.
Enforcer_Keys_PerTick ==
    /\ tickerC = 1
    /\ tickerC' = 0
    /\ cycles' = cycles + 1
    /\ inFlight' = inFlight + 1
    /\ UNCHANGED enfKicks
    /\ enf' = [IdleEnf EXCEPT !.pc = "keys", !.keys = Keys(activeSids),
                              !.month = Format(clock),
                              !.doomed = Doomed(Format(clock))]
    /\ UNCHANGED <<clock, store, req, bgKicks, checked, owed, nreq>>

\* for range ticker.C: a tick is taken, the streams are listed, the month read.
Enforcer_Keys ==
    /\ enf.pc = "idle"
    /\ tickerC = 1
    /\ tickerC' = 0
    /\ cycles' = cycles + 1
    /\ inFlight' = inFlight + 1
    /\ UNCHANGED enfKicks
    /\ enf' = [IdleEnf EXCEPT !.pc = "keys", !.keys = Keys(activeSids),
                              !.month = Format(clock),
                              !.doomed = Doomed(Format(clock))]
    /\ UNCHANGED <<clock, store, req, bgKicks, checked, owed, nreq>>

\* The next key of the outer loop and its SMembers.
Enforcer_SMembers ==
    /\ enf.pc = "keys"
    /\ \E key \in enf.keys :
         LET sids == SMembers(activeSids, key)
         IN  enf' = [Continue(enf, sids) EXCEPT !.key = key, !.keys = enf.keys \ {key}]
    /\ UNCHANGED <<clock, store, tickerC, req, bgKicks, history>>

\* The outer loop has run out of keys: the cycle is over.
Enforcer_End ==
    /\ enf.pc = "keys"
    /\ enf.keys = {}
    /\ enf' = [IdleEnf EXCEPT !.month = enf.month]
    /\ inFlight' = inFlight - 1
    /\ enfKicks' = Zero
    /\ UNCHANGED <<clock, store, tickerC, req, bgKicks, checked, cycles, owed, nreq>>

\* A session id with no mapping billed like any other.
Enforcer_Get_NoSkip ==
    /\ enf.pc = "sids"
    /\ \E sID \in enf.sids :
         enf' = [enf EXCEPT !.pc = "decr", !.sID = sID,
                            !.token = GetStr(sidToToken, sID),
                            !.sids = enf.sids \ {sID}]
    /\ UNCHANGED <<clock, store, tickerC, req, bgKicks, history>>

\* The next session id of the inner loop and the Get of its token.
Enforcer_Get ==
    /\ enf.pc = "sids"
    /\ \E sID \in enf.sids :
         LET token == GetStr(sidToToken, sID)
         IN  enf' = IF token = ""
                    THEN Continue(enf, enf.sids \ {sID})
                    ELSE [enf EXCEPT !.pc = "decr", !.sID = sID, !.token = token,
                                     !.sids = enf.sids \ {sID}]
    /\ UNCHANGED <<clock, store, tickerC, req, bgKicks, history>>

\* rdb.DecrBy(ctx, tokenKey, 5) and the test of the new balance
Enforcer_DecrBy ==
    /\ enf.pc = "decr"
    /\ LET tokenKey   == TokenKey(enf.token, enf.month)
           newBalance == GetInt(remain, tokenKey) - TickCost
       IN  /\ remain' = DecrBy(remain, tokenKey, TickCost)
           /\ enf' = IF Exhausted(newBalance)
                      THEN [enf EXCEPT !.pc = "kick", !.newBalance = newBalance,
                                       !.billed = @ \cup {enf.sID},
                                       !.present =
                                           /\ enf.sID \in SMembers(activeSids, enf.key)
                                           /\ enf.sID \in DOMAIN sidToToken]
                      ELSE [Continue(enf, enf.sids) EXCEPT
                                !.billed = @ \cup {enf.sID}]
    /\ UNCHANGED <<clock, sidToToken, activeSids, tickerC, req, bgKicks, history>>

\* kickLalSession(streamName, sID), called in line
Enforcer_Kick ==
    /\ enf.pc = "kick"
    /\ enfKicks' = [enfKicks EXCEPT ![<<enf.key, enf.sID>>] = @ + 1]
    /\ enf' = [enf EXCEPT !.pc = "srem"]
    /\ UNCHANGED <<clock, store, tickerC, req, bgKicks, checked, cycles, inFlight,
                   owed, nreq>>

\* The SRem given the session id for the key.
Enforcer_SRem_WrongKey ==
    /\ enf.pc = "srem"
    /\ activeSids' = SRem(activeSids, enf.sID, enf.sID)
    /\ enf' = [enf EXCEPT !.pc = "del"]
    /\ UNCHANGED <<clock, remain, sidToToken, tickerC, req, bgKicks, history>>

\* rdb.SRem(ctx, key, sID)
Enforcer_SRem ==
    /\ enf.pc = "srem"
    /\ activeSids' = SRem(activeSids, enf.key, enf.sID)
    /\ enf' = [enf EXCEPT !.pc = "del"]
    /\ UNCHANGED <<clock, remain, sidToToken, tickerC, req, bgKicks, history>>

\* rdb.Del(ctx, "sid_to_token:"+sID)
Enforcer_Del ==
    /\ enf.pc = "del"
    /\ sidToToken' = Del(sidToToken, enf.sID)
    /\ enf' = Continue(enf, enf.sids)
    /\ req' = [q \in Slots |-> NoteDel(req[q], enf.sID)]
    /\ UNCHANGED <<clock, remain, activeSids, tickerC, bgKicks, history>>

\* ------------------------------------------------------------------------
\* The environment: the store's expiry and the calendar
\* ------------------------------------------------------------------------

\* The 2-hour expiry of a sid_to_token key runs out.
Expire(sid) ==
    /\ sid \in DOMAIN sidToToken
    /\ sidToToken' = Del(sidToToken, sid)
    /\ req' = [q \in Slots |-> NoteDel(req[q], sid)]
    /\ UNCHANGED <<clock, remain, activeSids, tickerC, enf, bgKicks, history>>

\* The calendar month changes.
NextMonth ==
    /\ clock < MaxMonth
    /\ clock' = clock + 1
    /\ UNCHANGED <<store, tickerC, enf, req, bgKicks, history>>

\* ------------------------------------------------------------------------
\* Specifications
\* ------------------------------------------------------------------------

Handlers ==
    \E r \in Slots :
        \/ \E body \in StartBodies : OnSubStart(r, body)
        \/ OnSubStart_Get(r)
        \/ OnSubStart_Set(r)
        \/ OnSubStart_SAdd(r)
        \/ \E body \in StopBodies : OnSubStop(r, body)
        \/ OnSubStop_Del(r)
        \/ Quotas(r)
        \/ Quotas_Get(r)
        \/ Return(r)

Enforcer ==
    \/ Enforcer_Keys
    \/ Enforcer_SMembers
    \/ Enforcer_End
    \/ Enforcer_Get
    \/ Enforcer_DecrBy
    \/ Enforcer_Kick
    \/ Enforcer_SRem
    \/ Enforcer_Del

Next ==
    \/ Handlers
    \/ Enforcer
    \/ Tick(MaxCycles)
    \/ \E p \in Pairs : DelayedKick(p[1], p[2])
    \/ \E sid \in Sids : Expire(sid)
    \/ NextMonth

Spec == Init /\ [][Next]_vars

\* A delayed-kick goroutine that has been started wakes from its sleep and
\* makes its call.
FairSpec == Spec /\ \A p \in Pairs : WF_vars(DelayedKick(p[1], p[2]))

\* The 120-second scenario: an empty store, one admission of s1 on "stream"
\* with token abc, and then nothing but Enforcer cycles.
InitScenario ==
    /\ clock = 1
    /\ remain = <<>>
    /\ checked = {}
    /\ sidToToken = <<>>
    /\ activeSids = <<>>
    /\ tickerC = 0
    /\ enf = IdleEnf
    /\ req = [r \in Slots |-> IdleReq]
    /\ bgKicks = Zero
    /\ cycles = 0
    /\ inFlight = 0
    /\ enfKicks = Zero
    /\ owed = Zero
    /\ nreq = 0

Admitted == nreq = 1 /\ req[1].pc = "idle"

NextScenario ==
    \/ nreq = 0 /\ OnSubStart(1, Body("s1", "stream", WithToken("abc")))
    \/ OnSubStart_Get(1)
    \/ OnSubStart_Set(1)
    \/ OnSubStart_SAdd(1)
    \/ Return(1)
    \/ Admitted /\ Tick(ScenarioTicks)
    \/ Enforcer

SpecScenario == InitScenario /\ [][NextScenario]_vars

\* ------------------------------------------------------------------------
\* Steps, as seen from outside
\* ------------------------------------------------------------------------

\* Request r arrives at a handler of the given kind.
Arrives(r, kind) == req[r].pc = "idle" /\ req'[r].pc # "idle" /\ req'[r].kind = kind

\* Request r, an admission with a token, makes its admission check.
Checks(r) == Arrives(r, "start") /\ req'[r].pc = "get"

\* Request r reads the balance and decides.
Decides(r) == req[r].pc = "get" /\ req'[r].pc # "get"

\* The Enforcer decrements a balance.
Decrements == enf.pc = "decr" /\ enf'.pc # "decr"

\* ------------------------------------------------------------------------
\* C1
\* ------------------------------------------------------------------------

\* C1: the first admission check for a token in a month leaves its ledger
\* entry at the default quota; no later admission check, allowed or denied,
\* changes the balance; an existing balance changes only by the Enforcer's
\* decrement and never increases.
C1_FirstCheckSetsDefault ==
    [][ /\ \A r \in Slots :
             /\ Checks(r) =>
                  LET key == TokenKey(req'[r].token, req'[r].month)
                  IN  /\ key \in DOMAIN remain'
                      /\ remain'[key] = IF key \in checked THEN remain[key]
                                                           ELSE DefaultQuota
             /\ Decides(r) => remain' = remain
        /\ \A key \in DOMAIN remain :
             /\ key \in DOMAIN remain'
             /\ remain'[key] <= remain[key]
             /\ remain'[key] # remain[key] => Decrements
      ]_vars

\* ------------------------------------------------------------------------
\* C3
\* ------------------------------------------------------------------------

\* C3: an admission that reads a balance <= 0 for its token and month is
\* answered 1002 and ends there, leaving the balance, the mappings and the
\* active sets as they were.
C3_ExhaustedDenied ==
    [][ \A r \in Slots :
          (Decides(r) /\ GetInt(remain, TokenKey(req[r].token, req[r].month)) <= 0) =>
              /\ req'[r].pc = "done"
              /\ req'[r].resp = {1002}
              /\ UNCHANGED store
      ]_vars

C3_Witness ==
    \E r \in Slots :
        /\ req[r].kind = "start"
        /\ req[r].pc = "done"
        /\ req[r].resp = {1002}
        /\ req[r].remain = 0
        /\ req[r].sID \notin DOMAIN sidToToken

\* ------------------------------------------------------------------------
\* C4
\* ------------------------------------------------------------------------

C9_EntryOnlyAfterCheck == DOMAIN remain \subseteq checked

\* ------------------------------------------------------------------------
\* C10
\* ------------------------------------------------------------------------

\* C10: GET /quotas lists the ledger entries of the month current at the
\* call, one for every token checked that month, each with the balance it
\* reads and the status derived from it, and changes nothing in the store.
C10_QuotasOfCurrentMonth ==
    [][ \A r \in Slots :
          /\ Arrives(r, "quotas") =>
               /\ req'[r].keys = {key \in checked : key[2] = Format(clock)}
               /\ UNCHANGED store
          /\ (req[r].pc = "quotas_get" /\ req'[r] # req[r]) =>
               /\ \A key \in DOMAIN req'[r].results \ DOMAIN req[r].results :
                    /\ key \in req[r].keys
                    /\ req'[r].results[key].Remaining = remain[key]
                    /\ req'[r].results[key].Status =
                         (IF remain[key] > 0 THEN "active" ELSE "exhausted")
               /\ req'[r].pc = "done" => req'[r].keys = {}
               /\ UNCHANGED store
      ]_vars

\* ------------------------------------------------------------------------
\* C2
\* ------------------------------------------------------------------------

\* The Enforcer ends its work on a session it has evicted.
EvictionEnds == enf.pc = "del" /\ enf'.pc # "del"

StopRemoves(r) == Arrives(r, "stop")

\* Request r, a stop notification, makes its Del and is answered.
StopEnds(r) == req[r].pc = "stop_del" /\ req'[r].pc = "done"

\* C5: when a stop notification for a session has been handled, whatever the
\* Enforcer did meanwhile, the session has no mapping and (no admission
\* having added it again meanwhile) is not in its stream's active set; a
\* stop for a session that is in no set and has no mapping changes nothing.
C5_StopUnregisters ==
    [][ \A r \in Slots :
          /\ StopEnds(r) =>
               /\ req[r].sID \notin DOMAIN sidToToken'
               /\ ~req[r].raced =>
                    req[r].sID \notin SMembers(activeSids', req[r].msg.StreamName)
               /\ req'[r].resp = {0}
          /\ (/\ StopRemoves(r)
              /\ req'[r].sID \notin SMembers(activeSids, req'[r].msg.StreamName)) =>
               UNCHANGED store
          /\ (StopEnds(r) /\ req[r].sID \notin DOMAIN sidToToken) =>
               UNCHANGED store
      ]_vars

\* A stop for a session ends while the Enforcer is evicting that session.
C5_Witness ==
    \E r \in Slots :
        /\ req[r].kind = "stop"
        /\ req[r].pc = "done"
        /\ enf.pc \in {"kick", "srem", "del"}
        /\ enf.present
        /\ enf.sID = req[r].sID
        /\ enf.key = req[r].msg.StreamName
        /\ enf.sID \notin SMembers(activeSids, enf.key)
        /\ enf.sID \notin DOMAIN sidToToken

\* ------------------------------------------------------------------------
\* C6
\* ------------------------------------------------------------------------

\* C6: at most one Enforcer cycle is in progress, and it is the one the
\* Enforcer goroutine is in.
C6_OneCycle ==
    /\ inFlight \in {0, 1}
    /\ inFlight = 1 <=> enf.pc # "idle"

\* A tick is waiting in ticker.C while a cycle is evicting a session.
C6_Witness ==
    /\ tickerC = 1
    /\ inFlight = 1
    /\ enf.pc = "kick"
    /\ cycles < MaxCycles

\* ------------------------------------------------------------------------
\* C7
\* ------------------------------------------------------------------------

\* The tick on which a fresh quota runs out.
LastTick == DefaultQuota \div TickCost

ScenarioKey == TokenKey("abc", Format(1))

\* C7: in the scenario the admission is allowed at balance 120; between
\* cycles the balance is 120 - 5k after k <= 24 cycles; a kick call is made
\* only in cycle 24, once, for ("stream", "s1"); s1 is in the active set
\* until then and not after.
C7_Scenario ==
    /\ [](/\ (req[1].pc = "done") =>
               /\ req[1].resp = {0}
               /\ req[1].remain = DefaultQuota
               /\ remain[ScenarioKey] = DefaultQuota
          /\ (Admitted /\ enf.pc = "idle" /\ cycles <= LastTick) =>
               remain[ScenarioKey] = DefaultQuota - TickCost * cycles
          /\ (Admitted /\ cycles < LastTick) =>
               /\ SMembers(activeSids, "stream") = {"s1"}
               /\ GetStr(sidToToken, "s1") = "abc"
          /\ (enf.pc \in {"kick", "srem", "del"}) =>
               /\ cycles = LastTick
               /\ enf.key = "stream" /\ enf.sID = "s1"
               /\ enf.newBalance = 0
          /\ (enfKicks # Zero) =>
               /\ cycles = LastTick
               /\ enfKicks = [Zero EXCEPT ![<<"stream", "s1">>] = 1]
          /\ (Admitted /\ enf.pc = "idle" /\ cycles >= LastTick) =>
               /\ remain[ScenarioKey] = 0
               /\ activeSids = <<>>
               /\ sidToToken = <<>>)
    /\ [][ (inFlight = 1 /\ inFlight' = 0) =>
             enfKicks = [Zero EXCEPT ![<<"stream", "s1">>] =
                                        IF cycles = LastTick THEN 1 ELSE 0]
         ]_vars

C7_Witness ==
    /\ cycles = LastTick
    /\ enf.pc = "idle"
    /\ remain[ScenarioKey] = 0
    /\ "stream" \notin DOMAIN activeSids

\* ------------------------------------------------------------------------
\* C8
\* ------------------------------------------------------------------------

\* C8: the step that answers an admission with 1001 or 1002 starts one
\* delayed kick for its (stream, session), which is still to be made when
\* the answer is out; the step that answers with 0 starts none; delayed
\* kick calls never outnumber the denials, and every denial is followed by
\* its call (owed[p] counts the denials for p whose call is still to come,
\* and time and again it is 0).
C8_DeniedThenKicked ==
    /\ [](\A p \in Pairs : owed[p] >= 0 /\ bgKicks[p] = owed[p])
    /\ [][ \A r \in Slots :
             (req'[r].pc = "done" /\ req[r].pc # "done" /\ req'[r].kind = "start") =>
                 IF req'[r].resp \in {{1001}, {1002}}
                 THEN bgKicks' = [bgKicks EXCEPT
                                    ![<<req'[r].msg.StreamName, req'[r].sID>>] = @ + 1]
                 ELSE bgKicks' = bgKicks
         ]_vars
    /\ \A p \in Pairs : []<>(owed[p] = 0)

C8_Witness ==
    \E r \in Slots :
        /\ req[r].kind = "start"
        /\ req[r].pc = "done"
        /\ req[r].resp = {1002}
        /\ bgKicks[<<req[r].msg.StreamName, req[r].sID>>] = 1

\* ------------------------------------------------------------------------
\* C11
\* ------------------------------------------------------------------------

\* The error codes of an on_sub_start response.
StartCodes == {0, 1, 1001, 1002}

\* C11: an admission whose body does not bind is answered with error_code 1
\* and changes nothing: the store is as it was and no delayed kick is started;
\* every answered admission carries one of the codes 0, 1, 1001, 1002.
C11_MalformedAnswered ==
    /\ [](\A r \in Slots :
            (req[r].kind = "start" /\ req[r].pc = "done") =>
                \E code \in StartCodes : req[r].resp = {code})
    /\ [][ \A r \in Slots :
             (Arrives(r, "start") /\ req'[r].bindErr) =>
                 /\ req'[r].resp = {1}
                 /\ UNCHANGED <<store, bgKicks>>
         ]_vars

\* ------------------------------------------------------------------------
\* C12
\* ------------------------------------------------------------------------

\* The session id is a member of no stream's active set.
InNoSet(sid) == \A st \in DOMAIN activeSids : sid \notin activeSids[st]

\* The session id is in no active set and has no mapping.
Unregistered(sid) == InNoSet(sid) /\ sid \notin DOMAIN sidToToken

\* C12: a stop notification is always answered with error_code 0 and never
\* changes a ledger entry; each of its two store calls, made for a session id
\* that is in no active set and has no mapping, leaves the ledger, the active
\* sets and the mappings as they were.
C12_StopOfUnregistered ==
    /\ [](\A r \in Slots :
            (req[r].kind = "stop" /\ req[r].pc = "done") => req[r].resp = {0})
    /\ [][ \A r \in Slots :
             /\ (Arrives(r, "stop") \/ StopEnds(r)) =>
                    /\ remain' = remain
                    /\ bgKicks' = bgKicks
             /\ (Arrives(r, "stop") /\ Unregistered(req'[r].sID)) =>
                    UNCHANGED store
             /\ (StopEnds(r) /\ Unregistered(req[r].sID)) =>
                    /\ UNCHANGED store
                    /\ req'[r].resp = {0}
         ]_vars

\* A stop for s2, which no request has registered, is answered while s1 is
\* registered.
C12_Witness ==
    \E r \in Slots :
        /\ nreq = 2
        /\ req[r].kind = "stop"
        /\ req[r].pc = "done"
        /\ req[r].resp = {0}
        /\ req[r].sID = "s2"
        /\ Unregistered("s2")
        /\ "s1" \in SMembers(activeSids, "stream")
        /\ GetStr(sidToToken, "s1") = "abc"

\* ------------------------------------------------------------------------
\* C13
\* ------------------------------------------------------------------------

\* Request r, an admission, is answered.
Answered(r) == req[r].pc # "done" /\ req'[r].pc = "done" /\ req'[r].kind = "start"

\* Request r writes the mapping.
Maps(r) == req[r].pc = "set" /\ req'[r].pc = "sadd"

\* Request r adds the session id to the active set and is allowed.
Registers(r) == req[r].pc = "sadd" /\ req'[r].pc = "done"

\* What C13 says of each step of an admission, but for the mapping at the end.
AdmitSteps(r) ==
    /\ Answered(r) =>
         (req'[r].resp = {0} <=>
            /\ ~req'[r].bindErr
            /\ QueryGet(req'[r].msg.Url, "token") # ""
            /\ req'[r].remain > 0)
    /\ Decides(r) =>
         /\ req'[r].remain = GetInt(remain, TokenKey(req[r].token, req[r].month))
         /\ req'[r].pc = "set" <=> req'[r].remain > 0
    /\ Maps(r) =>
         /\ req[r].sID \in DOMAIN sidToToken'
         /\ sidToToken'[req[r].sID] = req[r].token
         /\ UNCHANGED <<remain, activeSids>>
    /\ Registers(r) =>
         /\ req[r].sID \in SMembers(activeSids', req[r].msg.StreamName)
         /\ UNCHANGED <<remain, sidToToken>>

Visits(sid) == enf.pc = "sids" /\ sid \in enf.sids /\ sid \notin enf'.sids

\* C14: when the Enforcer visits a session id that has no mapping, it goes
\* on to the next id (or the next stream) at once: nothing in the ledger,
\* the active sets or the mappings changes and no kick call is made or
\* started.
C14_AbsentMappingSkipped ==
    [][ \A sid \in Sids :
          (Visits(sid) /\ sid \notin DOMAIN sidToToken) =>
              /\ enf'.pc \in {"sids", "keys"}
              /\ enf'.sID = ""
              /\ UNCHANGED <<store, enfKicks, bgKicks>>
      ]_vars

\* The only request was the admission of s1 with abc on a fresh entry; s1 is
\* in the set of "stream", the Enforcer has visited every member it read
\* there, and the balance is whole: s1 had no mapping when it was visited.
C14_Witness ==
    /\ nreq = 1
    /\ cycles = 1
    /\ enf.pc = "keys"
    /\ enf.key = "stream"
    /\ SMembers(activeSids, "stream") = {"s1"}
    /\ "s1" \notin DOMAIN sidToToken
    /\ DOMAIN remain = {TokenKey("abc", Format(1))}
    /\ remain[TokenKey("abc", Format(1))] = DefaultQuota

\* ------------------------------------------------------------------------
\* C15
\* ------------------------------------------------------------------------

\* Start and stop notifications for session s1 on "stream" with token abc,
\* in any number up to the bound and in any interleaving with each other and
\* with the Enforcer; no mapping reaches its expiry and the month stays.
NextStartStop ==
    \/ \E r \in Slots :
         \/ OnSubStart(r, Body("s1", "stream", WithToken("abc")))
         \/ OnSubStart_Get(r)
         \/ OnSubStart_Set(r)
         \/ OnSubStart_SAdd(r)
         \/ OnSubStop(r, Body("s1", "stream", NoToken))
         \/ OnSubStop_Del(r)
         \/ Return(r)
    \/ Enforcer
    \/ Tick(MaxCycles)
    \/ DelayedKick("stream", "s1")

SpecStartStop == Init /\ [][NextStartStop]_vars

\* No handler and no Enforcer cycle is between two of its store calls.
Quiescent ==
    /\ enf.pc = "idle"
    /\ \A r \in Slots : req[r].pc \in {"idle", "done"}

\* C15: no mapping having expired, in every quiescent state each member of
\* each active set has a mapping.
C15_MemberHasMapping ==
    Quiescent =>
        \A st \in DOMAIN activeSids : \A sid \in activeSids[st] :
            sid \in DOMAIN sidToToken

\* ------------------------------------------------------------------------
\* C16
\* ------------------------------------------------------------------------

\* The ticker never stops: the count of cycles begun starts over, so that
\* the Enforcer goes on cycling in a finite state space.
Rewind ==
    /\ enf.pc = "idle"
    /\ tickerC = 0
    /\ cycles = MaxCycles
    /\ cycles' = 0
    /\ UNCHANGED <<clock, store, tickerC, enf, req, bgKicks, checked, inFlight,
                   enfKicks, owed, nreq>>

\* One admission of s1 on "stream" with token abc, no stop notification
\* ever, the expiry of its mapping, and Enforcer cycles without end.
NextOrphan ==
    \/ nreq = 0 /\ OnSubStart(1, Body("s1", "stream", WithToken("abc")))
    \/ OnSubStart_Get(1)
    \/ OnSubStart_Set(1)
    \/ OnSubStart_SAdd(1)
    \/ Return(1)
    \/ Admitted /\ Expire("s1")
    \/ Admitted /\ Tick(MaxCycles)
    \/ Enforcer
    \/ Rewind

\* The ticker fires every 5 seconds and the Enforcer goroutine is scheduled.
SpecOrphan ==
    /\ Init
    /\ [][NextOrphan]_vars
    /\ WF_vars(Admitted /\ Tick(MaxCycles))
    /\ WF_vars(Enforcer)
    /\ WF_vars(Rewind)

\* C16: once the mapping of registered session s1 has expired, a visit of
\* the Enforcer bills nothing for it, and s1 does not stay a member of its
\* stream's active set for ever.
C16_ExpiredLeaves ==
    /\ [][ \A sid \in Sids :
             (Visits(sid) /\ sid \notin DOMAIN sidToToken) =>
                 remain' = remain /\ enf'.pc # "decr"
         ]_vars
    /\ (Admitted /\ "s1" \in SMembers(activeSids, "stream")
                 /\ "s1" \notin DOMAIN sidToToken)
           ~> ("s1" \notin SMembers(activeSids, "stream"))

\* ------------------------------------------------------------------------
\* C17
\* ------------------------------------------------------------------------

\* C17: every decrement takes 5 from the entry of the session's token for the
\* cycle's month and touches no other entry, and no cycle makes a second
\* decrement for a session id it has already billed.
C17_OncePerCycle ==
    [][ Decrements =>
          /\ enf.sID \notin enf.billed
          /\ remain' = DecrBy(remain, TokenKey(enf.token, enf.month), TickCost)
      ]_vars

\* ------------------------------------------------------------------------
\* C18
\* ------------------------------------------------------------------------

\* C18: when an admission adds its session id to an active set, the balance
\* of its token, for the month the admission read, is > 0.
C18_AddedOnlyWithQuota ==
    [][ \A r \in Slots :
          Registers(r) =>
              /\ TokenKey(req[r].token, req[r].month) \in DOMAIN remain
              /\ remain[TokenKey(req[r].token, req[r].month)] > 0
      ]_vars

\* ------------------------------------------------------------------------
\* C19
\* ------------------------------------------------------------------------

\* The Enforcer's cycle ends.
CycleEnds == inFlight = 1 /\ inFlight' = 0

\* C19: when a cycle ends, every session that was a member of an active set
\* with a mapping to a token whose balance for the month was <= 0 when the
\* cycle began, and that no stop has removed since, has had a kick call made
\* for it in the cycle and is not in the set.
C19_ExhaustedGoneInOneCycle ==
    [][ CycleEnds =>
          \A p \in enf.doomed :
              /\ enfKicks[p] >= 1
              /\ p[2] \notin SMembers(activeSids, p[1])
      ]_vars

\* ------------------------------------------------------------------------
\* C20
\* ------------------------------------------------------------------------

\* A store call of the Enforcer that fails returns the zero value of its
\* result with an error, which the code drops; the store is as it was.

\* rdb.Keys fails: keys is nil and the outer loop has nothing to do.
Enforcer_Keys_Fails ==
    /\ enf.pc = "idle"
    /\ tickerC = 1
    /\ tickerC' = 0
    /\ cycles' = cycles + 1
    /\ inFlight' = inFlight + 1
    /\ UNCHANGED enfKicks
    /\ enf' = [IdleEnf EXCEPT !.pc = "keys", !.month = Format(clock)]
    /\ UNCHANGED <<clock, store, req, bgKicks, checked, owed, nreq>>

\* rdb.SMembers fails: sids is nil.
Enforcer_SMembers_Fails ==
    /\ enf.pc = "keys"
    /\ \E key \in enf.keys :
         enf' = [Continue(enf, {}) EXCEPT !.key = key, !.keys = enf.keys \ {key}]
    /\ UNCHANGED <<clock, store, tickerC, req, bgKicks, history>>

\* rdb.Get fails: token is the empty string and the session id is skipped.
Enforcer_Get_Fails ==
    /\ enf.pc = "sids"
    /\ \E sID \in enf.sids :
         LET token == ""
         IN  enf' = IF token = ""
                    THEN Continue(enf, enf.sids \ {sID})
                    ELSE [enf EXCEPT !.pc = "decr", !.sID = sID, !.token = token,
                                     !.sids = enf.sids \ {sID}]
    /\ UNCHANGED <<clock, store, tickerC, req, bgKicks, history>>

\* rdb.DecrBy fails: newBalance is 0, and the test of it is made all the same.
Enforcer_DecrBy_Fails ==
    /\ enf.pc = "decr"
    /\ LET newBalance == 0
       IN  enf' = IF Exhausted(newBalance)
                  THEN [enf EXCEPT !.pc = "kick", !.newBalance = newBalance,
                                   !.present =
                                       /\ enf.sID \in SMembers(activeSids, enf.key)
                                       /\ enf.sID \in DOMAIN sidToToken]
                  ELSE Continue(enf, enf.sids)
    /\ UNCHANGED <<clock, store, tickerC, req, bgKicks, history>>

\* rdb.SRem fails.
Enforcer_SRem_Fails ==
    /\ enf.pc = "srem"
    /\ enf' = [enf EXCEPT !.pc = "del"]
    /\ UNCHANGED <<clock, store, tickerC, req, bgKicks, history>>

\* rdb.Del fails.
Enforcer_Del_Fails ==
    /\ enf.pc = "del"
    /\ enf' = Continue(enf, enf.sids)
    /\ UNCHANGED <<clock, store, tickerC, req, bgKicks, history>>

\* One admission of s1 on "stream" with token abc, then Enforcer cycles in
\* which any store call may fail.
NextFaulty ==
    \/ nreq = 0 /\ OnSubStart(1, Body("s1", "stream", WithToken("abc")))
    \/ OnSubStart_Get(1)
    \/ OnSubStart_Set(1)
    \/ OnSubStart_SAdd(1)
    \/ Return(1)
    \/ Admitted /\ Tick(MaxCycles)
    \/ Enforcer
    \/ Enforcer_Keys_Fails
    \/ Enforcer_SMembers_Fails
    \/ Enforcer_Get_Fails
    \/ Enforcer_DecrBy_Fails
    \/ Enforcer_SRem_Fails
    \/ Enforcer_Del_Fails

SpecFaulty == Init /\ [][NextFaulty]_vars

\* The Enforcer decides to evict the session it has made its DecrBy for.
DecidesToEvict == enf.pc = "decr" /\ enf'.pc = "kick"

\* C20: the Enforcer goes on to the kick call, the SRem and the Del for a
\* session only when the stored balance of its token for the cycle's month
\* is <= 0 after the DecrBy; no step of the Enforcer but a DecrBy that went
\* through changes the ledger.
C20_EvictsOnlyExhausted ==
    [][ /\ DecidesToEvict =>
             /\ TokenKey(enf.token, enf.month) \in DOMAIN remain'
             /\ remain'[TokenKey(enf.token, enf.month)] <= 0
        /\ (enf' # enf /\ remain' # remain) =>
             /\ Decrements
             /\ remain' = DecrBy(remain, TokenKey(enf.token, enf.month), TickCost)
      ]_vars

====
